---- MODULE Spec2Model ----
(***************************************************************************)
(* Model of src/main.py: the exchange-rate cache (RateCache), the spread   *)
(* calculation (calculate_rates) and the aiogram dialogue handlers with    *)
(* the per-user FSM state kept in MemoryStorage.                           *)
(*                                                                         *)
(* Numbers: Python floats are modelled as exact rationals <<n, d>> in      *)
(* lowest terms with d > 0; float('inf') is <<1, 0>>, float('-inf') is     *)
(* <<-1, 0>> and float('nan') is <<0, 0>>.  None is the empty tuple for    *)
(* numbers and snapshots, the string "None" for the FSM state and -1 for   *)
(* a timestamp.  Time is counted in minutes.                               *)
(***************************************************************************)
EXTENDS Integers, Sequences, FiniteSets, TLC

VARIABLES
    now,               \* datetime.now(), in minutes
    cache,             \* rate_cache.cache: None or <<rub_per_usd, kzt_per_usd>>
    cache_time,        \* rate_cache.cache_time: NoTime or the minute of set()
    calculated_rates,  \* the global dict of the two client rates
    fsm,               \* MemoryStorage: the FSM state of every session key
    out,               \* the last message a handler sent, and to whom
    BOT_TOKEN,         \* os.getenv("BOT_TOKEN") is set (module global)
    OPENEXCHANGE_API_KEY,  \* os.getenv("OPENEXCHANGE_API_KEY") is set
    pc,                \* the process: "startup", "polling" or "failed"
    locked,            \* history: per session, the stored rate of the direction it
                       \* chose last, as it was when it chose (calc_*_handler)
    stale,             \* history: per session, whether it has completed a conversion
                       \* with the rates that calculated_rates still holds
    chosen             \* history: per session, the minute of its latest direction
                       \* choice (calc_*_handler), NoTime before the first
\* A history variable records the past for the claims that speak of it and is
\* read by no handler.  It is NoHistory in the specifications that do not
\* record it.

vars ==
    <<now, cache, cache_time, calculated_rates, fsm, out, BOT_TOKEN,
      OPENEXCHANGE_API_KEY, pc, locked, stale, chosen>>

(* The environment and the position of the process: no handler writes them. *)
process == <<BOT_TOKEN, OPENEXCHANGE_API_KEY, pc>>

(* ------------------------------ bounds --------------------------------- *)

MaxTime == 25

TickStep == 10

SessionKeys == {"u1", "u2"}

(* Responses of openexchangerates.org seen by requests.get / response.json *)
Responses ==
    { [kind |-> "ok", RUB |-> 90, KZT |-> 450],
      [kind |-> "ok", RUB |-> 100, KZT |-> 450],
      [kind |-> "no_rates", RUB |-> 0, KZT |-> 0],
      [kind |-> "network_error", RUB |-> 0, KZT |-> 0] }

(* No request is made: the cache answers. *)
NoResponse == [kind |-> "none", RUB |-> 0, KZT |-> 0]

(* --------------------------- float arithmetic -------------------------- *)

None == <<>>

NoTime == -1

Abs(x) == IF x < 0 THEN -x ELSE x

RECURSIVE GCD(_, _)
GCD(a, b) == IF b = 0 THEN a ELSE GCD(b, a % b)

Sign(x) == IF x > 0 THEN 1 ELSE IF x < 0 THEN -1 ELSE 0

Rat(n, d) ==
    IF d = 0 THEN <<Sign(n), 0>>
    ELSE LET g == GCD(Abs(n), Abs(d))
         IN  <<Sign(d) * (n \div g), Abs(d) \div g>>

Inf == <<1, 0>>

NaN == <<0, 0>>

IsFinite(x) == x[2] # 0

Mul(a, b) == Rat(a[1] * b[1], a[2] * b[2])

Div(a, b) == Rat(a[1] * b[2], a[2] * b[1])

(* Python:  x <= 0  (False for nan) *)
LeqZero(x) == x # NaN /\ x[1] <= 0

(* Python:  a < b  for finite a, b *)
Less(a, b) == a[1] * b[2] < b[1] * a[2]

(* Python truthiness of an Optional[float]:  `if not rate` *)
Truthy(x) == x # None /\ x # <<0, 1>>

(* Python round(x) for a finite x: round half to even *)
Round(x) ==
    LET q == x[1] \div x[2]
        r == x[1] % x[2]
    IN  IF 2 * r < x[2] THEN q
        ELSE IF 2 * r > x[2] THEN q + 1
        ELSE IF q % 2 = 0 THEN q ELSE q + 1

(* ------------------------------ RateCache ------------------------------ *)

cache_duration == 20

is_valid_inclusive ==
    IF cache = None \/ cache_time = NoTime THEN FALSE
    ELSE now - cache_time <= cache_duration

is_valid ==
    IF cache = None \/ cache_time = NoTime THEN FALSE
    ELSE now - cache_time < cache_duration

RateCache_get == IF is_valid THEN cache ELSE None

RateCache_set_keeps_time(data) == [cache |-> data, cache_time |-> cache_time]

(* RateCache.set(data): both fields, as they are after the call. *)
RateCache_set(data) == [cache |-> data, cache_time |-> now]

(* ------------------------- API and calculations ------------------------ *)

get_market_rates_clears_cache(resp) ==
    LET cached == RateCache_get
    IN  IF cached # None
        THEN [exc |-> "", rates |-> cached, fetch |-> "",
              cache |-> cache, cache_time |-> cache_time]
        ELSE IF ~OPENEXCHANGE_API_KEY
        THEN [exc |-> "ValueError", rates |-> None, fetch |-> "",
              cache |-> cache, cache_time |-> cache_time]
        ELSE IF resp.kind = "network_error"
        THEN [exc |-> "Exception", rates |-> None, fetch |-> resp.kind,
              cache |-> None, cache_time |-> NoTime]
        ELSE IF resp.kind = "no_rates"
        THEN [exc |-> "ValueError", rates |-> None, fetch |-> resp.kind,
              cache |-> None, cache_time |-> NoTime]
        ELSE LET stored == RateCache_set(<<resp.RUB, resp.KZT>>)
             IN  [exc |-> "", rates |-> <<resp.RUB, resp.KZT>>,
                  fetch |-> resp.kind,
                  cache |-> stored.cache, cache_time |-> stored.cache_time]

(* get_market_rates: exc is "" on success, else the class that is raised   *)
(* ("Exception" for any class that is not a ValueError); fetch is the      *)
(* outcome of requests.get, "" when no request was made (the cache         *)
(* answered, or the API key is missing).                                   *)
get_market_rates(resp) ==
    LET cached == RateCache_get
    IN  IF cached # None
        THEN [exc |-> "", rates |-> cached, fetch |-> "",
              cache |-> cache, cache_time |-> cache_time]
        ELSE IF ~OPENEXCHANGE_API_KEY
        THEN [exc |-> "ValueError", rates |-> None, fetch |-> "",
              cache |-> cache, cache_time |-> cache_time]
        ELSE IF resp.kind = "network_error"
        THEN [exc |-> "Exception", rates |-> None, fetch |-> resp.kind,
              cache |-> cache, cache_time |-> cache_time]
        ELSE IF resp.kind = "no_rates"
        THEN [exc |-> "ValueError", rates |-> None, fetch |-> resp.kind,
              cache |-> cache, cache_time |-> cache_time]
        ELSE LET stored == RateCache_set(<<resp.RUB, resp.KZT>>)
             IN  [exc |-> "", rates |-> <<resp.RUB, resp.KZT>>,
                  fetch |-> resp.kind,
                  cache |-> stored.cache, cache_time |-> stored.cache_time]

SpreadSub == Rat(96, 100)

SpreadAdd == Rat(104, 100)

base_rate(rub_per_usd, kzt_per_usd) == Rat(kzt_per_usd, rub_per_usd)

rate_rub_to_kzt(rub_per_usd, kzt_per_usd) ==
    Mul(base_rate(rub_per_usd, kzt_per_usd), SpreadSub)

rate_kzt_to_rub_symmetric(rub_per_usd, kzt_per_usd) ==
    Mul(base_rate(rub_per_usd, kzt_per_usd), SpreadSub)

rate_kzt_to_rub(rub_per_usd, kzt_per_usd) ==
    Mul(base_rate(rub_per_usd, kzt_per_usd), SpreadAdd)

calculate_rates_one_key(resp) ==
    LET m == get_market_rates(resp)
    IN  IF m.exc # ""
        THEN [exc |-> m.exc, fetch |-> m.fetch, fetched |-> None,
              cache |-> m.cache, cache_time |-> m.cache_time,
              calculated_rates |-> calculated_rates]
        ELSE [exc |-> "", fetch |-> m.fetch,
              fetched |-> IF m.fetch = "" THEN None ELSE m.rates,
              cache |-> m.cache, cache_time |-> m.cache_time,
              calculated_rates |->
                  [rub_to_kzt |-> rate_rub_to_kzt(m.rates[1], m.rates[2]),
                   kzt_to_rub |-> calculated_rates.kzt_to_rub]]

calculate_rates(resp) ==
    LET m == get_market_rates(resp)
    IN  IF m.exc # ""
        THEN [exc |-> m.exc, fetch |-> m.fetch, fetched |-> None,
              cache |-> m.cache, cache_time |-> m.cache_time,
              calculated_rates |-> calculated_rates]
        ELSE [exc |-> "", fetch |-> m.fetch,
              fetched |-> IF m.fetch = "" THEN None ELSE m.rates,
              cache |-> m.cache, cache_time |-> m.cache_time,
              calculated_rates |->
                  [rub_to_kzt |-> rate_rub_to_kzt(m.rates[1], m.rates[2]),
                   kzt_to_rub |-> rate_kzt_to_rub(m.rates[1], m.rates[2])]]

(* What requests.get can bring in this state: get_market_rates makes no    *)
(* request while the cache is valid, nor without an API key.               *)
Reachable ==
    IF is_valid \/ ~OPENEXCHANGE_API_KEY THEN {NoResponse} ELSE Responses

(* ------------------------------ amount text ---------------------------- *)

(* message.text is a tuple of one-character strings; NoText is a message   *)
(* without text (message.text is None).                                    *)
NoText == <<"None">>

Digits == {"0", "1", "2", "3", "4", "5", "6", "7", "8", "9"}

DigitVal(c) ==
    CASE c = "0" -> 0 [] c = "1" -> 1 [] c = "2" -> 2 [] c = "3" -> 3
      [] c = "4" -> 4 [] c = "5" -> 5 [] c = "6" -> 6 [] c = "7" -> 7
      [] c = "8" -> 8 [] c = "9" -> 9

(* str.replace(',', '.') *)
replace(t) == [i \in 1..Len(t) |-> IF t[i] = "," THEN "." ELSE t[i]]

RECURSIVE lstrip(_)
lstrip(t) == IF t # <<>> /\ t[1] = " " THEN lstrip(Tail(t)) ELSE t

RECURSIVE rstrip(_)
rstrip(t) ==
    IF t # <<>> /\ t[Len(t)] = " " THEN rstrip(SubSeq(t, 1, Len(t) - 1)) ELSE t

(* str.strip() *)
strip(t) == rstrip(lstrip(t))

RECURSIVE DigitsVal(_)
DigitsVal(t) ==
    IF t = <<>> THEN 0
    ELSE 10 * DigitsVal(SubSeq(t, 1, Len(t) - 1)) + DigitVal(t[Len(t)])

RECURSIVE Pow10(_)
Pow10(k) == IF k = 0 THEN 1 ELSE 10 * Pow10(k - 1)

AllDigits(t) == \A i \in 1..Len(t) : t[i] \in Digits

(* float(s): ok is FALSE where Python raises ValueError.  The grammar is    *)
(* Python's, restricted to signs, decimal digits, one point, inf and nan.  *)
float(s) ==
    LET signed == s # <<>> /\ s[1] \in {"-", "+"}
        sgn    == IF s # <<>> /\ s[1] = "-" THEN -1 ELSE 1
        body   == IF signed THEN Tail(s) ELSE s
        dots   == {i \in 1..Len(body) : body[i] = "."}
        dot    == IF dots = {} THEN Len(body) + 1
                  ELSE CHOOSE i \in dots : \A j \in dots : i <= j
        ipart  == SubSeq(body, 1, dot - 1)
        fpart  == SubSeq(body, dot + 1, Len(body))
    IN  IF body = <<"i", "n", "f">> THEN [ok |-> TRUE, value |-> <<sgn, 0>>]
        ELSE IF body = <<"n", "a", "n">> THEN [ok |-> TRUE, value |-> NaN]
        ELSE IF /\ AllDigits(ipart)
                /\ AllDigits(fpart)
                /\ Len(ipart) + Len(fpart) > 0
        THEN [ok |-> TRUE,
              value |-> Rat(sgn * (DigitsVal(ipart) * Pow10(Len(fpart))
                                   + DigitsVal(fpart)),
                            Pow10(Len(fpart)))]
        ELSE [ok |-> FALSE, value |-> None]

(* int(round(x)): the exception class raised, "" when none is. *)
int_round_exc(x) ==
    IF x = NaN THEN "ValueError"
    ELSE IF ~IsFinite(x) THEN "Exception"
    ELSE ""

(* ------------------------------ FSM states ----------------------------- *)

Idle == "None"

ExchangeStates ==
    {"rub_to_kzt_waiting_rub", "rub_to_kzt_waiting_kzt",
     "kzt_to_rub_waiting_kzt", "kzt_to_rub_waiting_rub"}

NoRates == [rub_to_kzt |-> None, kzt_to_rub |-> None]

(* The last update handled: the session `to` it came from and was          *)
(* answered to, the kind of message sent, the FSM state the session was in *)
(* when the handler started, the text of the update, the outcome of the    *)
(* RateSource request made on the way ("" when none was made), the class   *)
(* of the exception calculate_rates raised in the handler ("" when it      *)
(* raised none or was not called), and the numbers the message carries     *)
(* (None where it carries none).  lookup: the handler called               *)
(* calculate_rates; fetched: the rates requests.get brought; mode: the     *)
(* state the prompt of an input-mode handler asks an amount for.           *)
Msg(to, kind, state) ==
    [to |-> to, kind |-> kind, state |-> state, text |-> None, fetch |-> "",
     exc |-> "", lookup |-> FALSE, fetched |-> None, mode |-> "None",
     amount |-> None, rate |-> None, result |-> None, shown |-> None,
     rates |-> NoRates]

NoHistory == <<>>

(* The state when the module is loaded, before main() runs. *)
InitProgram ==
    /\ now = 0
    /\ cache = None
    /\ cache_time = NoTime
    /\ calculated_rates = NoRates
    /\ fsm = [s \in SessionKeys |-> Idle]
    /\ out = Msg("", "", Idle)
    /\ BOT_TOKEN \in BOOLEAN
    /\ OPENEXCHANGE_API_KEY \in BOOLEAN
    /\ pc = "startup"

Init ==
    /\ InitProgram
    /\ locked = NoHistory
    /\ stale = NoHistory
    /\ chosen = NoHistory

InitLocked ==
    /\ InitProgram
    /\ locked = [s \in SessionKeys |-> NoRates]
    /\ stale = NoHistory
    /\ chosen = NoHistory

InitStale ==
    /\ InitProgram
    /\ locked = NoHistory
    /\ stale = [s \in SessionKeys |-> FALSE]
    /\ chosen = NoHistory

InitChosen ==
    /\ InitProgram
    /\ locked = NoHistory
    /\ stale = NoHistory
    /\ chosen = [s \in SessionKeys |-> NoTime]

(* locked after session s chose the direction `key` *)
LockedAtChoice(s, key) ==
    IF locked = NoHistory THEN locked
    ELSE [locked EXCEPT ![s] = [NoRates EXCEPT ![key] = calculated_rates[key]]]

(* chosen after session s chose a direction *)
ChosenAt(s) ==
    IF chosen = NoHistory THEN chosen ELSE [chosen EXCEPT ![s] = now]

(* locked after state.clear() of session s *)
LockedAtClear(s) ==
    IF locked = NoHistory THEN locked ELSE [locked EXCEPT ![s] = NoRates]

(* stale after a handler of session s: `calculated` when calculate_rates   *)
(* rewrote calculated_rates, `completed` when s was sent a result.         *)
StaleAfter(s, calculated, completed) ==
    IF stale = NoHistory THEN stale
    ELSE [t \in SessionKeys |->
            IF t = s /\ completed THEN TRUE ELSE stale[t] /\ ~calculated]

(* main(): without BOT_TOKEN it raises ValueError and the process ends;    *)
(* otherwise the handlers are registered and polling starts.  The API key  *)
(* is not looked at.                                                       *)
main ==
    /\ pc = "startup"
    /\ pc' = IF BOT_TOKEN THEN "polling" ELSE "failed"
    /\ UNCHANGED <<now, cache, cache_time, calculated_rates, fsm, out, locked,
                   stale, chosen, BOT_TOKEN, OPENEXCHANGE_API_KEY>>

(* The dispatcher delivers updates to the registered handlers once         *)
(* start_polling runs: the first guard of every handler.                   *)
polling == pc = "polling"

(* The clock of datetime.now() advances. *)
Tick ==
    /\ now + TickStep <= MaxTime
    /\ now' = now + TickStep
    /\ UNCHANGED <<cache, cache_time, calculated_rates, fsm, out, locked, stale>>
    /\ UNCHANGED process
    /\ UNCHANGED chosen

(* ------------------------------- handlers ------------------------------ *)

(* /start, registered without a state filter: it runs in every state. *)
start_handler(s) ==
    /\ polling
    /\ out' = Msg(s, "start", fsm[s])
    /\ UNCHANGED <<now, cache, cache_time, calculated_rates, fsm, locked, stale>>
    /\ UNCHANGED process
    /\ UNCHANGED chosen

(* A message that no registered handler accepts (a text in state None). *)
unhandled_message(s) ==
    /\ polling
    /\ fsm[s] = Idle
    /\ out' = Msg(s, "unhandled", fsm[s])
    /\ UNCHANGED <<now, cache, cache_time, calculated_rates, fsm, locked, stale>>
    /\ UNCHANGED process
    /\ UNCHANGED chosen

request_rate_handler(s, resp) ==
    /\ polling
    /\ \E c \in {calculate_rates(resp)} :
        /\ cache' = c.cache
        /\ cache_time' = c.cache_time
        /\ calculated_rates' = c.calculated_rates
        /\ out' = IF c.exc = ""
                  THEN [Msg(s, "rates", fsm[s]) EXCEPT
                            !.rates = c.calculated_rates, !.fetch = c.fetch,
                            !.lookup = TRUE, !.fetched = c.fetched]
                  ELSE [Msg(s, "rate_error", fsm[s]) EXCEPT
                            !.fetch = c.fetch, !.exc = c.exc, !.lookup = TRUE]
        /\ stale' = StaleAfter(s, c.exc = "", FALSE)
        /\ UNCHANGED <<now, fsm, locked>>
        /\ UNCHANGED process
        /\ UNCHANGED chosen

calc_rub_to_kzt_handler(s) ==
    /\ polling
    /\ out' = Msg(s, "rub_to_kzt_calc_choice", fsm[s])
    /\ locked' = LockedAtChoice(s, "rub_to_kzt")
    /\ UNCHANGED <<now, cache, cache_time, calculated_rates, fsm, stale>>
    /\ UNCHANGED process
    /\ chosen' = ChosenAt(s)

calc_kzt_to_rub_handler(s) ==
    /\ polling
    /\ out' = Msg(s, "kzt_to_rub_calc_choice", fsm[s])
    /\ locked' = LockedAtChoice(s, "kzt_to_rub")
    /\ UNCHANGED <<now, cache, cache_time, calculated_rates, fsm, stale>>
    /\ UNCHANGED process
    /\ chosen' = ChosenAt(s)

input_handler_global(s, st) ==
    /\ polling
    /\ fsm' = [t \in SessionKeys |-> st]
    /\ out' = [Msg(s, "enter_amount", fsm[s]) EXCEPT !.mode = st]
    /\ UNCHANGED <<now, cache, cache_time, calculated_rates, locked, stale>>
    /\ UNCHANGED process
    /\ UNCHANGED chosen

(* The four input-mode callbacks: state.set_state and a prompt. *)
input_handler(s, st) ==
    /\ polling
    /\ fsm' = [fsm EXCEPT ![s] = st]
    /\ out' = [Msg(s, "enter_amount", fsm[s]) EXCEPT !.mode = st]
    /\ UNCHANGED <<now, cache, cache_time, calculated_rates, locked, stale>>
    /\ UNCHANGED process
    /\ UNCHANGED chosen

rub_to_kzt_input_rub_handler(s) == input_handler(s, "rub_to_kzt_waiting_rub")

rub_to_kzt_input_kzt_handler(s) == input_handler(s, "rub_to_kzt_waiting_kzt")

kzt_to_rub_input_rub_handler(s) == input_handler(s, "kzt_to_rub_waiting_rub")

kzt_to_rub_input_kzt_handler(s) == input_handler(s, "kzt_to_rub_waiting_kzt")

(* What an amount handler does with the text, the stored rate `key` and    *)
(* the conversion `op` ("mul": amount * rate, "div": amount / rate).       *)
(* kind: the message sent; clear: state.clear() is called.                 *)
amount_outcome(text, key, op, resp) ==
    LET keep == [kind |-> "", clear |-> FALSE, amount |-> None, rate |-> None,
                 result |-> None, shown |-> None, cache |-> cache,
                 cache_time |-> cache_time,
                 calculated_rates |-> calculated_rates, calculated |-> FALSE,
                 fetch |-> "", exc |-> "", lookup |-> FALSE, fetched |-> None]
    IN  IF text = NoText \/ text = <<>> \/ strip(text) = <<>>
        THEN [keep EXCEPT !.kind = "enter_number"]
        ELSE
        LET p == float(strip(replace(text)))
        IN  IF ~p.ok
            THEN [keep EXCEPT !.kind = "enter_correct_number"]
            ELSE IF LeqZero(p.value)
            THEN [keep EXCEPT !.kind = "not_positive"]
            ELSE
            LET stored == calculated_rates[key]
                c      == calculate_rates(resp)
                called == ~Truthy(stored)
                exc    == IF called THEN c.exc ELSE ""
                rate   == IF called THEN c.calculated_rates[key] ELSE stored
                after  == IF called
                          THEN [keep EXCEPT !.cache = c.cache,
                                            !.cache_time = c.cache_time,
                                            !.calculated_rates = c.calculated_rates,
                                            !.calculated = (c.exc = ""),
                                            !.fetch = c.fetch, !.exc = c.exc,
                                            !.lookup = TRUE,
                                            !.fetched = c.fetched]
                          ELSE keep
            IN  IF exc = "ValueError"
                THEN [after EXCEPT !.kind = "enter_correct_number"]
                ELSE IF exc = "Exception"
                THEN [after EXCEPT !.kind = "calc_error", !.clear = TRUE]
                ELSE
                LET result == IF op = "mul" THEN Mul(p.value, rate)
                              ELSE Div(p.value, rate)
                    rexc   == int_round_exc(p.value)
                IN  IF rexc = "ValueError"
                    THEN [after EXCEPT !.kind = "enter_correct_number"]
                    ELSE IF rexc = "Exception"
                    THEN [after EXCEPT !.kind = "calc_error", !.clear = TRUE]
                    ELSE [after EXCEPT !.kind = "result", !.clear = TRUE,
                                       !.amount = p.value, !.rate = rate,
                                       !.result = result,
                                       !.shown = <<Round(p.value), Round(result)>>]

amount_handler(s, st, text, key, op, resp) ==
    /\ polling
    /\ fsm[s] = st
    /\ \E o \in {amount_outcome(text, key, op, resp)} :
        /\ cache' = o.cache
        /\ cache_time' = o.cache_time
        /\ calculated_rates' = o.calculated_rates
        /\ fsm' = IF o.clear THEN [fsm EXCEPT ![s] = Idle] ELSE fsm
        /\ out' = [Msg(s, o.kind, st) EXCEPT
                      !.text = text, !.fetch = o.fetch, !.exc = o.exc,
                      !.lookup = o.lookup, !.fetched = o.fetched,
                      !.amount = o.amount,
                      !.rate = o.rate, !.result = o.result, !.shown = o.shown]
        /\ locked' = IF o.clear THEN LockedAtClear(s) ELSE locked
        /\ stale' = StaleAfter(s, o.calculated, o.kind = "result")
        /\ UNCHANGED now
        /\ UNCHANGED process
        /\ UNCHANGED chosen

rub_to_kzt_amount_rub_handler(s, text, resp) ==
    amount_handler(s, "rub_to_kzt_waiting_rub", text, "rub_to_kzt", "mul", resp)

rub_to_kzt_amount_kzt_handler_inverse_rate(s, text, resp) ==
    amount_handler(s, "rub_to_kzt_waiting_kzt", text, "kzt_to_rub", "div", resp)

rub_to_kzt_amount_kzt_handler(s, text, resp) ==
    amount_handler(s, "rub_to_kzt_waiting_kzt", text, "rub_to_kzt", "div", resp)

kzt_to_rub_amount_rub_handler(s, text, resp) ==
    amount_handler(s, "kzt_to_rub_waiting_rub", text, "kzt_to_rub", "div", resp)

kzt_to_rub_amount_kzt_handler_forward_rate(s, text, resp) ==
    amount_handler(s, "kzt_to_rub_waiting_kzt", text, "rub_to_kzt", "mul", resp)

kzt_to_rub_amount_kzt_handler(s, text, resp) ==
    amount_handler(s, "kzt_to_rub_waiting_kzt", text, "kzt_to_rub", "mul", resp)

(* ---------------------------- specifications --------------------------- *)

(* The texts users send in the dialogue specification. *)
Texts == { <<"1", "0", "0", "0">>, <<"a", "b", "c">> }

Callback(s) ==
    \/ start_handler(s)
    \/ unhandled_message(s)
    \/ calc_rub_to_kzt_handler(s)
    \/ calc_kzt_to_rub_handler(s)
    \/ rub_to_kzt_input_rub_handler(s)
    \/ rub_to_kzt_input_kzt_handler(s)
    \/ kzt_to_rub_input_rub_handler(s)
    \/ kzt_to_rub_input_kzt_handler(s)

AmountMessage(s, text, resp) ==
    \/ rub_to_kzt_amount_rub_handler(s, text, resp)
    \/ rub_to_kzt_amount_kzt_handler(s, text, resp)
    \/ kzt_to_rub_amount_rub_handler(s, text, resp)
    \/ kzt_to_rub_amount_kzt_handler(s, text, resp)

Next ==
    \/ main
    \/ polling /\ Tick
    \/ \E s \in SessionKeys : Callback(s)
    \/ \E s \in SessionKeys, resp \in Reachable : request_rate_handler(s, resp)
    \/ \E s \in SessionKeys, text \in Texts, resp \in Reachable :
           AmountMessage(s, text, resp)

Spec == Init /\ [][Next]_vars

(* The same program, recording the history variable locked. *)
SpecLocked == InitLocked /\ [][Next]_vars

(* The same program, recording the history variable stale. *)
SpecStale == InitStale /\ [][Next]_vars

(* The same program, recording the history variable chosen. *)
SpecChosen == InitChosen /\ [][Next]_vars

(* The amount dialogue of one session over every short text. *)

TextChars == {"1", "0", ".", ",", "-"}

MaxTextLen == 2

RECURSIVE TextsOfLen(_)
TextsOfLen(k) ==
    IF k = 0 THEN {<<>>}
    ELSE {Append(t, c) : t \in TextsOfLen(k - 1), c \in TextChars}

AmountTexts ==
    UNION {TextsOfLen(k) : k \in 0..MaxTextLen}
    \cup { <<"1", "0", "0", "0">>, <<"4", "8", "0", "0">>,
           <<"1", "0", "0", "0", ",", "5", "0">>,
           <<"1", "0", "0", "0", ".", "5", "0">>,
           <<" ", "1", ",", "5", " ">>, <<"-", "5">>, <<"a", "b", "c">>,
           <<" ">>, <<" ", " ">>, <<" ", "1">>, <<"1", " ">>, <<"1", " ", "0">>,
           <<"i", "n", "f">>, <<"n", "a", "n">>, NoText }

InputMode(s) ==
    \/ rub_to_kzt_input_rub_handler(s)
    \/ rub_to_kzt_input_kzt_handler(s)
    \/ kzt_to_rub_input_rub_handler(s)
    \/ kzt_to_rub_input_kzt_handler(s)

NextAmount ==
    \/ main
    \/ InputMode("u1")
    \/ \E resp \in Reachable : request_rate_handler("u1", resp)
    \/ \E text \in AmountTexts, resp \in Reachable :
           AmountMessage("u1", text, resp)

SpecAmount == Init /\ [][NextAmount]_vars

(* ================================ claims =============================== *)

(* C3: RateCache.get returns the stored snapshot if and only if a snapshot *)
(* has been stored and now - cache_time < 20 minutes: the snapshot at any  *)
(* time strictly before cache_time + 20, absent at cache_time + 20 or      *)
(* later and when nothing was ever stored.                                 *)
C3_CacheFreshness ==
    /\ (cache = None \/ cache_time = NoTime) => RateCache_get = None
    /\ (cache # None /\ cache_time # NoTime /\ now < cache_time + 20)
           => RateCache_get = cache
    /\ (cache # None /\ cache_time # NoTime /\ now >= cache_time + 20)
           => RateCache_get = None
    /\ (cache = None) <=> (cache_time = NoTime)

(* A snapshot was stored and the clock stands exactly at cache_time + 20. *)
C3_Witness ==
    /\ cache # None
    /\ now = cache_time + 20
    /\ RateCache_get = None

C4_ResultComputation ==
    out.kind = "result" =>
        /\ IsFinite(out.amount) /\ out.amount[1] > 0
        /\ out.state = "rub_to_kzt_waiting_rub" =>
               /\ out.rate = calculated_rates.rub_to_kzt
               /\ out.result = Mul(out.amount, calculated_rates.rub_to_kzt)
        /\ out.state = "rub_to_kzt_waiting_kzt" =>
               /\ out.rate = calculated_rates.rub_to_kzt
               /\ out.result = Div(out.amount, calculated_rates.rub_to_kzt)
        /\ out.state = "kzt_to_rub_waiting_kzt" =>
               /\ out.rate = calculated_rates.kzt_to_rub
               /\ out.result = Mul(out.amount, calculated_rates.kzt_to_rub)
        /\ out.state = "kzt_to_rub_waiting_rub" =>
               /\ out.rate = calculated_rates.kzt_to_rub
               /\ out.result = Div(out.amount, calculated_rates.kzt_to_rub)
        /\ out.state \in ExchangeStates
        /\ calculated_rates.rub_to_kzt # calculated_rates.kzt_to_rub
        /\ (/\ out.state = "rub_to_kzt_waiting_kzt"
            /\ out.amount = <<4800, 1>>
            /\ out.rate = Rat(48, 10)) => out.result = <<1000, 1>>

(* 4800 KZT desired was submitted in the RUB -> KZT flow at the rate 4.8. *)
C4_Witness ==
    /\ out.kind = "result"
    /\ out.state = "rub_to_kzt_waiting_kzt"
    /\ out.text = <<"4", "8", "0", "0">>
    /\ out.rate = <<24, 5>>
    /\ out.result = <<1000, 1>>
    /\ out.shown = <<4800, 1000>>

(* The stored rate an amount handler registered for state st reads. *)
RateKey(st) ==
    IF st \in {"rub_to_kzt_waiting_rub", "rub_to_kzt_waiting_kzt"}
    THEN "rub_to_kzt" ELSE "kzt_to_rub"

(* This step is a submitAmount of session s that is answered with a result. *)
Succeeded(s) ==
    /\ fsm[s] \in ExchangeStates
    /\ out'.to = s
    /\ out'.kind = "result"

(* C1: the rate applied when submitAmount succeeds is the rate that was    *)
(* current for the chosen direction when the session chose its direction;  *)
(* a refresh between chooseDirection and submitAmount does not change it.  *)
C1_LockedRateApplied ==
    [][\A s \in SessionKeys :
          (Succeeded(s) /\ locked[s][RateKey(fsm[s])] # None)
              => out'.rate = locked[s][RateKey(fsm[s])]]_vars

(* C2: session isolation: whatever another session does, the rate, and so  *)
(* the result, that a session awaiting an amount is given stays the same.  *)
C2_SessionIsolation ==
    [][\A s \in SessionKeys :
          (/\ fsm[s] \in ExchangeStates
           /\ out'.to # s
           /\ Truthy(calculated_rates[RateKey(fsm[s])]))
              => calculated_rates'[RateKey(fsm[s])]
                     = calculated_rates[RateKey(fsm[s])]]_vars

(* C6: round trip: X RUB converted to KZT in source-amount mode and the    *)
(* KZT converted back to RUB in source-amount mode with the same pair of   *)
(* rates gives X * (1 - spread) * (1 + spread), strictly less than X.      *)
(* Stated at the second leg: the KZT amount submitted is the forward       *)
(* conversion of X = amount / rub_to_kzt.                                  *)
C6_RoundTrip ==
    (out.kind = "result" /\ out.state = "kzt_to_rub_waiting_kzt") =>
        LET X == Div(out.amount, calculated_rates.rub_to_kzt)
        IN  /\ Mul(X, calculated_rates.rub_to_kzt) = out.amount
            /\ out.result = Mul(X, Mul(Rat(100 - 4, 100), Rat(100 + 4, 100)))
            /\ Less(out.result, X)

(* The kinds of message only an amount handler sends, and its re-prompts.  *)
AmountKinds ==
    {"enter_number", "enter_correct_number", "not_positive", "calc_error",
     "result"}

RetryPrompts == {"enter_number", "enter_correct_number", "not_positive"}

(* Classes of text, as the claim names them. *)
Blank(t) == t = NoText \/ \A i \in 1..Len(t) : t[i] = " "

NonNumeric(t) ==
    /\ t # NoText
    /\ \E i \in 1..Len(t) : t[i] \notin Digits \cup {".", ",", "-", "+", " "}

ZeroOrNegative(t) ==
    /\ ~Blank(t) /\ ~NonNumeric(t)
    /\ float(strip(replace(t))).ok
    /\ float(strip(replace(t))).value[1] <= 0

PositiveDecimal(t) ==
    /\ ~Blank(t)
    /\ \A i \in 1..Len(t) : t[i] \in Digits \cup {".", ",", " "}
    /\ float(strip(replace(t))).ok
    /\ float(strip(replace(t))).value[1] > 0

(* C7: in an awaiting-amount state an empty, whitespace-only, non-numeric, *)
(* zero or negative text is answered with a retry prompt and the session   *)
(* stays in the same awaiting-amount state; a positive decimal with '.' or *)
(* ',' (optionally surrounded by whitespace) is accepted.                  *)
C7_Validation ==
    out.kind \in AmountKinds =>
        /\ (Blank(out.text) \/ NonNumeric(out.text) \/ ZeroOrNegative(out.text))
               => (out.kind \in RetryPrompts /\ fsm[out.to] = out.state)
        /\ PositiveDecimal(out.text) => out.kind \notin RetryPrompts

(* C8: whenever a RateSource call fails while an event is handled, the     *)
(* failure is reported as a quote error and the session's dialogue state   *)
(* after the event is the state before it.                                 *)
C8_FetchFailureKeepsState ==
    out.fetch \in {"no_rates", "network_error"} =>
        /\ out.kind \in {"rate_error", "calc_error"}
        /\ fsm[out.to] = out.state

(* C9: after a successful submitAmount the session is Idle and keeps no    *)
(* rate of the finished conversation: its next conversion is computed with *)
(* a rate obtained after it, never with the rate the finished one used.    *)
C9_NoRateRetained ==
    [][\A s \in SessionKeys :
          Succeeded(s) => (fsm'[s] = Idle /\ ~stale[s])]_vars

(* C10: from every state /start and the request-rate button leave the      *)
(* session in Idle, so that a later text is not treated as an amount.      *)
C10_ReturnToMenuResets ==
    out.kind \in {"start", "rates", "rate_error"} => fsm[out.to] = Idle

(* This step is a valid positive amount of session s arriving while the   *)
(* stored rate of its direction is missing.                                *)
MissingRateSubmit(s) ==
    /\ fsm[s] \in ExchangeStates
    /\ out'.to = s
    /\ out'.kind \in AmountKinds
    /\ PositiveDecimal(out'.text)
    /\ ~Truthy(calculated_rates[RateKey(fsm[s])])

(* The client rate of direction key that calculate_rates derives from the  *)
(* snapshot snap.                                                          *)
DerivedRate(key, snap) ==
    Mul(Rat(snap[2], snap[1]),
        IF key = "rub_to_kzt" THEN Rat(96, 100) ELSE Rat(104, 100))

C12_SecretsCheckedAtStartup ==
    (pc # "startup" /\ (~BOT_TOKEN \/ ~OPENEXCHANGE_API_KEY))
        => (pc = "failed" /\ out.kind = "")

(* This step is a handler that called calculate_rates, and so              *)
(* get_market_rates.                                                       *)
LookupStep == pc = "polling" /\ now' = now /\ out'.lookup

(* C13: get_market_rates invokes RateSource if and only if the cache holds *)
(* no fresh snapshot, and on success stores exactly the fetched rates with *)
(* the current time; so after a successful fetch at time t no RateSource   *)
(* call is made before t + 20 minutes.                                     *)
C13_FetchIffNotFresh ==
    [][LookupStep =>
          /\ (out'.fetch # "") <=> (RateCache_get = None)
          /\ out'.fetch = "ok" =>
                 (cache' = out'.fetched /\ cache_time' = now)
          /\ out'.fetch # "" =>
                 (cache_time = NoTime \/ now >= cache_time + cache_duration)]_vars

(* C14: with events of several sessions handled concurrently, the rates    *)
(* and the timestamp of the cache are always those written by one set call *)
(* (a step that changes either field writes both, the fetched rates and    *)
(* the current time), and the two fields are both absent or both present   *)
(* in every state a handler observes.                                      *)
C14_NoTornCache ==
    [][/\ (cache = None) <=> (cache_time = NoTime)
       /\ (cache' = None) <=> (cache_time' = NoTime)
       /\ (cache' # cache \/ cache_time' # cache_time) =>
              /\ out'.fetch = "ok"
              /\ cache' = out'.fetched
              /\ cache' # None
              /\ cache_time' = now]_vars

(* Session u2 replaced the snapshot 90/450 of minute 0 by 100/450 at       *)
(* minute 20 while session u1 awaits an amount.                            *)
C14_Witness ==
    /\ cache = <<100, 450>>
    /\ cache_time = 20
    /\ out.to = "u2"
    /\ out.fetch = "ok"
    /\ fsm["u1"] \in ExchangeStates
    /\ calculated_rates.rub_to_kzt = Rat(432, 100)

(* C15: the rate applied to a successfully submitted amount derives from   *)
(* a snapshot that was fresh (age < 20 minutes) at some moment no earlier  *)
(* than the session's latest direction choice, never from a snapshot that  *)
(* had expired before the session chose its direction.  The stored rates   *)
(* derive from the snapshot in the cache, fresh until cache_time + 20.     *)
C15_RateFreshSinceChoice ==
    [][\A s \in SessionKeys :
          (Succeeded(s) /\ chosen[s] # NoTime)
              => /\ cache_time' # NoTime
                 /\ out'.rate = DerivedRate(RateKey(fsm[s]), cache')
                 /\ chosen[s] < cache_time' + cache_duration]_vars

C17_FailedFetchFrame ==
    [][(LookupStep /\ out'.fetch \in {"no_rates", "network_error"})
          => /\ cache' = cache
             /\ cache_time' = cache_time
             /\ calculated_rates' = calculated_rates]_vars

(* A request made at minute 20 failed; the expired snapshot of minute 0    *)
(* and the rates derived from it are still stored.                         *)
C17_Witness ==
    /\ out.fetch \in {"no_rates", "network_error"}
    /\ out.lookup
    /\ now = 20
    /\ cache = <<90, 450>>
    /\ cache_time = 0
    /\ calculated_rates = [rub_to_kzt |-> <<24, 5>>, kzt_to_rub |-> <<26, 5>>]

(* The conversion that belongs to the awaiting-amount state st. *)
Conversion(st, amount, rate) ==
    IF st \in {"rub_to_kzt_waiting_rub", "kzt_to_rub_waiting_kzt"}
    THEN Mul(amount, rate) ELSE Div(amount, rate)

(* C18: the conversion applied to a submitted amount is the one of the     *)
(* direction and input mode the session chose most recently (an input-mode *)
(* choice in any state replaces the previous one; the state changes only   *)
(* by such a choice or by the end of a dialogue), and an event of one      *)
(* session never changes the dialogue state of another session.            *)
C18_LatestChoiceOwnSession ==
    [][\A s \in SessionKeys :
          /\ out'.to # s => fsm'[s] = fsm[s]
          /\ (out'.to = s /\ out'.kind = "enter_amount") =>
                 (fsm'[s] = out'.mode /\ out'.mode \in ExchangeStates)
          /\ Succeeded(s) =>
                 /\ out'.state = fsm[s]
                 /\ out'.rate = calculated_rates'[RateKey(fsm[s])]
                 /\ out'.result = Conversion(fsm[s], out'.amount, out'.rate)
          /\ fsm'[s] # fsm[s] =>
                 \/ out'.kind = "enter_amount"
                 \/ /\ out'.kind \in {"result", "calc_error"}
                    /\ fsm[s] \in ExchangeStates
                    /\ fsm'[s] = Idle]_vars

(* Session u1, awaiting an amount in one mode, chose another mode while    *)
(* session u2 awaits an amount in a third.                                 *)
C18_Witness ==
    /\ out.kind = "enter_amount"
    /\ out.to = "u1"
    /\ out.state = "rub_to_kzt_waiting_rub"
    /\ out.mode = "kzt_to_rub_waiting_rub"
    /\ fsm["u1"] = "kzt_to_rub_waiting_rub"
    /\ fsm["u2"] = "rub_to_kzt_waiting_kzt"

(* C19: an amount handler sends the 'enter a correct number' retry prompt  *)
(* only when the submitted text is not a parseable number; every failure   *)
(* of the rate lookup for a valid positive amount (missing API key,        *)
(* response without 'rates', network error) is reported as a calculation   *)
(* error.                                                                  *)
C19_RetryPromptOnlyForBadText ==
    /\ out.kind = "enter_correct_number" =>
           ~float(strip(replace(out.text))).ok
    /\ (out.kind \in AmountKinds /\ out.lookup /\ out.exc # "") =>
           out.kind = "calc_error"

====
